---------------------------- MODULE Spec2Model ----------------------------
(***************************************************************************)
(* Model of dashboard/app.py: the read-side aggregation of the endpoint    *)
(* monitor.  Strings are sequences of one-character strings, so that       *)
(* str.replace, str.startswith and int() are computed character by         *)
(* character.  An optional value (Python None or a value) is <<>> or <<v>>.*)
(***************************************************************************)
EXTENDS Integers, Sequences, FiniteSets, TLC

\* store:     the fact store, a function from the keys present to their strings
\* now:       the instant of the pass, [sec, usec]
\* down:      the store reads that cannot reach the store
\* iteration: the order in which the set of endpoints is iterated
\* response:  the outcome of the last operation
VARIABLES store, now, down, iteration, response

vars == <<store, now, down, iteration, response>>

(***************************************************************************)
(* Optional values and Python truthiness                                   *)
(***************************************************************************)
None == <<>>

Some(v) == <<v>>

\* `if s:` for an optional string: None and "" are both falsy
Truthy(o) == o # None /\ Len(o[1]) > 0

(***************************************************************************)
(* Key namespaces of the fact store                                        *)
(***************************************************************************)
StatusPrefix == <<"s","t","a","t","u","s",":">>

SslPrefix == <<"s","s","l",":">>

StatusUpdatedPrefix == <<"s","t","a","t","u","s","_","u","p","d","a","t","e","d",":">>

SslUpdatedPrefix == <<"s","s","l","_","u","p","d","a","t","e","d",":">>

HttpsScheme == <<"h","t","t","p","s",":","/","/">>

HttpScheme == <<"h","t","t","p",":","/","/">>

\* str.startswith(p)
StartsWith(s, p) == Len(s) >= Len(p) /\ SubSeq(s, 1, Len(p)) = p

\* str.replace(old, ""): every non-overlapping occurrence of old, scanning
\* left to right, is removed
RECURSIVE Replace(_, _)
Replace(s, old) ==
    IF Len(s) < Len(old) THEN s
    ELSE IF StartsWith(s, old)
         THEN Replace(SubSeq(s, Len(old) + 1, Len(s)), old)
         ELSE <<Head(s)>> \o Replace(Tail(s), old)

\* redis scan_iter("<prefix>*"): the keys of the store that match the glob
ScanIter(st, prefix) == {k \in DOMAIN st : StartsWith(k, prefix)}


\* redis get(key): the stored string, or None; a read (<<"get", key>> or
\* <<"scan", prefix>>) in the set dn cannot reach the store and raises
RedisGet(st, dn, key) ==
    IF <<"get", key>> \in dn THEN [exc |-> "ConnectionError", v |-> None]
    ELSE [exc |-> "", v |-> IF key \in DOMAIN st THEN Some(st[key]) ELSE None]

(***************************************************************************)
(* int(str): surrounding whitespace is stripped, one optional sign, then   *)
(* decimal digits which single underscores may separate.  Python integers  *)
(* are unbounded, so the parsed value is kept as its sign and its digits   *)
(* (most significant first, no leading zero).                              *)
(***************************************************************************)
Digits == <<"0","1","2","3","4","5","6","7","8","9">>

IsDigit(c) == \E i \in 1..10 : Digits[i] = c

DigitVal(c) == (CHOOSE i \in 1..10 : Digits[i] = c) - 1

IsSpace(c) == c = " "

RECURSIVE LStrip(_)
LStrip(s) == IF s # <<>> /\ IsSpace(Head(s)) THEN LStrip(Tail(s)) ELSE s

RECURSIVE RStrip(_)
RStrip(s) ==
    IF s # <<>> /\ IsSpace(s[Len(s)]) THEN RStrip(SubSeq(s, 1, Len(s) - 1)) ELSE s

Strip(s) == RStrip(LStrip(s))

\* the digit part of an integer literal: digits, with single underscores
\* only between two digits
ValidDigits(b) ==
    /\ b # <<>>
    /\ \A i \in 1..Len(b) : IsDigit(b[i]) \/ b[i] = "_"
    /\ IsDigit(b[1]) /\ IsDigit(b[Len(b)])
    /\ \A i \in 1..(Len(b) - 1) : ~(b[i] = "_" /\ b[i + 1] = "_")

RECURSIVE DigitSeq(_)
DigitSeq(b) ==
    IF b = <<>> THEN <<>>
    ELSE IF Head(b) = "_" THEN DigitSeq(Tail(b))
         ELSE <<DigitVal(Head(b))>> \o DigitSeq(Tail(b))

RECURSIVE DropZeros(_)
DropZeros(d) == IF d # <<>> /\ Head(d) = 0 THEN DropZeros(Tail(d)) ELSE d

\* int(s): [ok |-> FALSE] stands for ValueError
ParseInt(s) ==
    LET t == Strip(s)
        signed == t # <<>> /\ Head(t) \in {"+", "-"}
        body == IF signed THEN Tail(t) ELSE t
    IN  IF ValidDigits(body)
        THEN LET d == DropZeros(DigitSeq(body))
             IN  [ok |-> TRUE, neg |-> (signed /\ Head(t) = "-" /\ d # <<>>), digits |-> d]
        ELSE [ok |-> FALSE, neg |-> FALSE, digits |-> <<>>]

\* magnitude comparison of two digit sequences without leading zeros
RECURSIVE LexLeq(_, _)
LexLeq(a, b) ==
    IF a = <<>> THEN TRUE
    ELSE IF Head(a) # Head(b) THEN Head(a) < Head(b)
         ELSE LexLeq(Tail(a), Tail(b))

MagLeq(a, b) == Len(a) < Len(b) \/ (Len(a) = Len(b) /\ LexLeq(a, b))

RECURSIVE MagValue(_)
MagValue(d) == IF d = <<>> THEN 0 ELSE 10 * MagValue(SubSeq(d, 1, Len(d) - 1)) + d[Len(d)]

\* the value of a parsed integer as a number of the model
IntValue(p) == IF p.neg THEN 0 - MagValue(p.digits) ELSE MagValue(p.digits)

(***************************************************************************)
(* datetime.fromtimestamp(t, tz=utc).  A datetime of the model is its      *)
(* number of seconds since the epoch.  t outside the platform's 64-bit     *)
(* time_t raises OverflowError; t inside it but outside years 1..9999      *)
(* raises ValueError (or OSError when gmtime itself overflows: the code    *)
(* catches both alike).                                                    *)
(***************************************************************************)
TimeTMaxDigits == <<9,2,2,3,3,7,2,0,3,6,8,5,4,7,7,5,8,0,7>>

TimeTMinDigits == <<9,2,2,3,3,7,2,0,3,6,8,5,4,7,7,5,8,0,8>>

DatetimeMaxDigits == <<2,5,3,4,0,2,3,0,0,7,9,9>>

DatetimeMinDigits == <<6,2,1,3,5,5,9,6,8,0,0>>

FromTimestamp(p) ==
    IF ~MagLeq(p.digits, IF p.neg THEN TimeTMinDigits ELSE TimeTMaxDigits)
    THEN [exc |-> "OverflowError", dt |-> None]
    ELSE IF ~MagLeq(p.digits, IF p.neg THEN DatetimeMinDigits ELSE DatetimeMaxDigits)
         THEN [exc |-> "ValueError", dt |-> None]
         ELSE [exc |-> "", dt |-> Some(IntValue(p))]

(***************************************************************************)
(* get_endpoint_data.  `nw` is the instant datetime.now() returns, as      *)
(* whole seconds and microseconds.                                         *)
(***************************************************************************)
SecondsPerDay == 86400

\* faulty variant: the difference truncated toward zero instead of floored
TimedeltaDaysTruncated(exp, nw) ==
    LET secs == IF nw.usec > 0 THEN exp - nw.sec - 1 ELSE exp - nw.sec
    IN  IF secs >= 0 THEN secs \div SecondsPerDay
        ELSE IF nw.usec > 0 THEN 0 - ((0 - secs - 1) \div SecondsPerDay)
        ELSE 0 - ((0 - secs) \div SecondsPerDay)

\* (exp_date - now).days: a timedelta is normalised to days, 0 <= seconds <
\* 86400 and 0 <= microseconds < 10^6, so days is the floor of the difference
TimedeltaDays(exp, nw) ==
    LET secs == IF nw.usec > 0 THEN exp - nw.sec - 1 ELSE exp - nw.sec
    IN  secs \div SecondsPerDay

IsHttps(endpoint) == StartsWith(endpoint, HttpsScheme)

NewData(endpoint) ==
    [endpoint |-> endpoint, status |-> None, status_code |-> 0,
     ssl_expiration |-> None, days_left |-> None, last_status_update |-> None,
     last_ssl_update |-> None, is_https |-> IsHttps(endpoint)]

\* faulty variant: a status that is no integer is dropped instead of kept raw
ReadStatusDropsRaw(st, dn, r) ==
    IF r.exc # "" THEN r
    ELSE LET g == RedisGet(st, dn, StatusPrefix \o r.data.endpoint)
         IN  IF g.exc # "" THEN [r EXCEPT !.exc = g.exc]
             ELSE IF ~Truthy(g.v) THEN r
             ELSE LET p == ParseInt(g.v[1])
                  IN  IF p.ok
                      THEN [r EXCEPT !.data.status_code = IntValue(p),
                                     !.data.status = g.v]
                      ELSE r

\* lines 51-59: the HTTP status
ReadStatus(st, dn, r) ==
    IF r.exc # "" THEN r
    ELSE LET g == RedisGet(st, dn, StatusPrefix \o r.data.endpoint)
         IN  IF g.exc # "" THEN [r EXCEPT !.exc = g.exc]
             ELSE IF ~Truthy(g.v) THEN r
             ELSE LET p == ParseInt(g.v[1])
                  IN  IF p.ok
                      THEN [r EXCEPT !.data.status_code = IntValue(p),
                                     !.data.status = g.v]
                      ELSE [r EXCEPT !.data.status = g.v]

\* lines 61-71: the time of the last status update
ReadStatusUpdated(st, dn, r) ==
    IF r.exc # "" THEN r
    ELSE LET g == RedisGet(st, dn, StatusUpdatedPrefix \o r.data.endpoint)
         IN  IF g.exc # "" THEN [r EXCEPT !.exc = g.exc]
             ELSE IF ~Truthy(g.v) THEN r
             ELSE LET p == ParseInt(g.v[1])
                  IN  IF ~p.ok THEN r
                      ELSE LET f == FromTimestamp(p)
                           IN  IF f.exc = "" THEN [r EXCEPT !.data.last_status_update = f.dt]
                               ELSE IF f.exc \in {"ValueError", "OSError"} THEN r
                               ELSE [r EXCEPT !.exc = f.exc]

\* faulty variant: the certificate expiration is read whatever the scheme
ReadSslAnyScheme(st, dn, nw, r) ==
    IF r.exc # "" THEN r
    ELSE LET g == RedisGet(st, dn, SslPrefix \o r.data.endpoint)
         IN  IF g.exc # "" THEN [r EXCEPT !.exc = g.exc]
             ELSE IF ~Truthy(g.v) THEN r
             ELSE LET p == ParseInt(g.v[1])
                  IN  IF ~p.ok THEN r
                      ELSE LET f == FromTimestamp(p)
                           IN  IF f.exc = ""
                               THEN [r EXCEPT !.data.ssl_expiration = f.dt,
                                              !.data.days_left =
                                                  Some(TimedeltaDays(f.dt[1], nw))]
                               ELSE IF f.exc \in {"ValueError", "OSError"} THEN r
                               ELSE [r EXCEPT !.exc = f.exc]

\* lines 73-88: the certificate expiration and the days left, HTTPS only
ReadSsl(st, dn, nw, r) ==
    IF r.exc # "" \/ ~r.data.is_https THEN r
    ELSE LET g == RedisGet(st, dn, SslPrefix \o r.data.endpoint)
         IN  IF g.exc # "" THEN [r EXCEPT !.exc = g.exc]
             ELSE IF ~Truthy(g.v) THEN r
             ELSE LET p == ParseInt(g.v[1])
                  IN  IF ~p.ok THEN r
                      ELSE LET f == FromTimestamp(p)
                           IN  IF f.exc = ""
                               THEN [r EXCEPT !.data.ssl_expiration = f.dt,
                                              !.data.days_left =
                                                  Some(TimedeltaDays(f.dt[1], nw))]
                               ELSE IF f.exc \in {"ValueError", "OSError"} THEN r
                               ELSE [r EXCEPT !.exc = f.exc]

\* lines 90-100: the time of the last certificate update, HTTPS only
ReadSslUpdated(st, dn, r) ==
    IF r.exc # "" \/ ~r.data.is_https THEN r
    ELSE LET g == RedisGet(st, dn, SslUpdatedPrefix \o r.data.endpoint)
         IN  IF g.exc # "" THEN [r EXCEPT !.exc = g.exc]
             ELSE IF ~Truthy(g.v) THEN r
             ELSE LET p == ParseInt(g.v[1])
                  IN  IF ~p.ok THEN r
                      ELSE LET f == FromTimestamp(p)
                           IN  IF f.exc = "" THEN [r EXCEPT !.data.last_ssl_update = f.dt]
                               ELSE IF f.exc \in {"ValueError", "OSError"} THEN r
                               ELSE [r EXCEPT !.exc = f.exc]

\* the record, or the exception that left the function
GetEndpointData(st, dn, nw, endpoint) ==
    ReadSslUpdated(st, dn,
        ReadSsl(st, dn, nw,
            ReadStatusUpdated(st, dn,
                ReadStatus(st, dn, [exc |-> "", data |-> NewData(endpoint)]))))

\* get_all_endpoints: the set built from both scans; list(endpoints) then
\* has the set's iteration order, which the callers cannot choose
GetAllEndpoints(st, dn) ==
    IF <<"scan", StatusPrefix>> \in dn \/ <<"scan", SslPrefix>> \in dn
    THEN [exc |-> "ConnectionError", endpoints |-> {}]
    ELSE [exc |-> "",
          endpoints |-> {Replace(k, StatusPrefix) : k \in ScanIter(st, StatusPrefix)}
                        \cup {Replace(k, SslPrefix) : k \in ScanIter(st, SslPrefix)}]

(***************************************************************************)
(* Classifiers and display fields.  A formatted text is the tuple of its   *)
(* parts.                                                                  *)
(***************************************************************************)
get_status_class(status_code) ==
    IF status_code = 0 THEN "status-error"
    ELSE IF 200 <= status_code /\ status_code < 300 THEN "status-success"
    ELSE IF 300 <= status_code /\ status_code < 400 THEN "status-redirect"
    ELSE IF 400 <= status_code /\ status_code < 500 THEN "status-client-error"
    ELSE IF 500 <= status_code /\ status_code < 600 THEN "status-server-error"
    ELSE "status-unknown"

\* faulty variant: the boundaries 7 and 30 fall into the more severe bucket
get_ssl_class_inclusive(days_left) ==
    IF days_left = None THEN ""
    ELSE IF days_left[1] < 0 THEN "ssl-expired"
    ELSE IF days_left[1] <= 7 THEN "ssl-critical"
    ELSE IF days_left[1] <= 30 THEN "ssl-warning"
    ELSE "ssl-ok"

get_ssl_class(days_left) ==
    IF days_left = None THEN ""
    ELSE IF days_left[1] < 0 THEN "ssl-expired"
    ELSE IF days_left[1] < 7 THEN "ssl-critical"
    ELSE IF days_left[1] < 30 THEN "ssl-warning"
    ELSE "ssl-ok"

\* int(x / d) for the float x = whole + (a fraction iff frac): truncation
\* toward zero
TruncDiv(whole, frac, d) ==
    IF whole >= 0 THEN whole \div d
    ELSE IF frac THEN 0 - ((0 - whole - 1) \div d)
    ELSE 0 - ((0 - whole) \div d)

format_time_ago(dt, nw) ==
    IF dt = None THEN <<"Never">>
    ELSE LET whole == nw.sec - dt[1]
             frac == nw.usec > 0
         IN  IF whole < 60 THEN <<TruncDiv(whole, frac, 1), "s ago">>
             ELSE IF whole < 3600 THEN <<TruncDiv(whole, frac, 60), "m ago">>
             ELSE IF whole < SecondsPerDay THEN <<TruncDiv(whole, frac, 3600), "h ago">>
             ELSE <<TruncDiv(whole, frac, SecondsPerDay), "d ago">>

Abs(n) == IF n < 0 THEN 0 - n ELSE n

prepare_endpoint_display_data(data, nw) ==
    [endpoint |-> data.endpoint, status |-> data.status,
     status_code |-> data.status_code, ssl_expiration |-> data.ssl_expiration,
     days_left |-> data.days_left, last_status_update |-> data.last_status_update,
     last_ssl_update |-> data.last_ssl_update, is_https |-> data.is_https,
     status_class |-> get_status_class(data.status_code),
     ssl_class |-> get_ssl_class(data.days_left),
     status_text |-> IF data.status_code # 0 THEN <<"str", data.status_code>>
                     ELSE <<"N/A">>,
     ssl_text |-> IF data.is_https
                  THEN IF data.days_left # None
                       THEN IF data.days_left[1] < 0
                            THEN <<"Expired", Abs(data.days_left[1]), "days ago">>
                            ELSE <<data.days_left[1], "days left">>
                       ELSE <<"Checking...">>
                  ELSE <<"HTTP only">>,
     update_text |-> format_time_ago(IF data.last_status_update # None
                                     THEN data.last_status_update
                                     ELSE data.last_ssl_update, nw)]

\* datetime.isoformat(): the text of the date and of the time of day
IsoFormat(t) == <<"date", t \div SecondsPerDay, "T", t % SecondsPerDay, "+00:00">>

\* lines 237-243: the datetime fields of a record as ISO-8601 text
ToWire(data) ==
    [data EXCEPT
        !.last_status_update = IF @ # None THEN Some(IsoFormat(@[1])) ELSE @,
        !.last_ssl_update = IF @ # None THEN Some(IsoFormat(@[1])) ELSE @,
        !.ssl_expiration = IF @ # None THEN Some(IsoFormat(@[1])) ELSE @]

(***************************************************************************)
(* The ranking: list.sort with the key (days_left is None, days_left or    *)
(* inf).  list.sort is stable: an element goes after every element whose   *)
(* key is not greater than its own.                                        *)
(***************************************************************************)
\* faulty variant: the key is only (days_left is None)
KeyLessNoneOnly(x, y) == x.days_left # None /\ y.days_left = None

\* key(x) < key(y) for the tuples (bool, number), False < True
KeyLess(x, y) ==
    LET xn == x.days_left = None
        yn == y.days_left = None
    IN  \/ ~xn /\ yn
        \/ ~xn /\ ~yn /\ x.days_left[1] < y.days_left[1]

\* faulty variant: an element goes before the elements whose key equals its own
RECURSIVE InsertBeforeEqual(_, _)
InsertBeforeEqual(sorted, x) ==
    IF sorted = <<>> THEN <<x>>
    ELSE IF ~KeyLess(Head(sorted), x) THEN <<x>> \o sorted
         ELSE <<Head(sorted)>> \o InsertBeforeEqual(Tail(sorted), x)

RECURSIVE Insert(_, _)
Insert(sorted, x) ==
    IF sorted = <<>> THEN <<x>>
    ELSE IF KeyLess(x, Head(sorted)) THEN <<x>> \o sorted
         ELSE <<Head(sorted)>> \o Insert(Tail(sorted), x)

RECURSIVE Sort(_)
Sort(list) ==
    IF list = <<>> THEN <<>>
    ELSE Insert(Sort(SubSeq(list, 1, Len(list) - 1)), list[Len(list)])

(***************************************************************************)
(* Summary counters of the dashboard (lines 208-215)                       *)
(***************************************************************************)
RECURSIVE HealthyCount(_)
HealthyCount(list) ==
    IF list = <<>> THEN 0
    ELSE (IF Head(list).status_code # 0 /\ 200 <= Head(list).status_code
             /\ Head(list).status_code < 300 THEN 1 ELSE 0)
         + HealthyCount(Tail(list))

\* faulty variant: expired certificates are not counted
RECURSIVE SslWarningCountNotExpired(_)
SslWarningCountNotExpired(list) ==
    IF list = <<>> THEN 0
    ELSE (IF Head(list).days_left # None /\ 0 <= Head(list).days_left[1]
             /\ Head(list).days_left[1] < 30
          THEN 1 ELSE 0)
         + SslWarningCountNotExpired(Tail(list))

RECURSIVE SslWarningCount(_)
SslWarningCount(list) ==
    IF list = <<>> THEN 0
    ELSE (IF Head(list).days_left # None /\ Head(list).days_left[1] < 30
          THEN 1 ELSE 0)
         + SslWarningCount(Tail(list))

(***************************************************************************)
(* The two routes.  `order` is the iteration order of the endpoint set,    *)
(* dn the store reads that fail during the pass.  An exception that    *)
(* leaves a route ends the request as a server error.                      *)
(***************************************************************************)
\* faulty variant: an endpoint whose join raises is skipped
RECURSIVE JoinAllSkipsFailures(_, _, _, _, _)
JoinAllSkipsFailures(st, dn, nw, order, wire) ==
    IF order = <<>> THEN [exc |-> "", list |-> <<>>]
    ELSE LET first == JoinAllSkipsFailures(st, dn, nw, SubSeq(order, 1, Len(order) - 1), wire)
             r == GetEndpointData(st, dn, nw, order[Len(order)])
         IN  IF r.exc # "" THEN first
             ELSE [exc |-> "",
                   list |-> Append(first.list, IF wire THEN ToWire(r.data) ELSE r.data)]

\* the loop over the endpoints: the records joined so far, or the exception
RECURSIVE JoinAll(_, _, _, _, _)
JoinAll(st, dn, nw, order, wire) ==
    IF order = <<>> THEN [exc |-> "", list |-> <<>>]
    ELSE LET first == JoinAll(st, dn, nw, SubSeq(order, 1, Len(order) - 1), wire)
         IN  IF first.exc # "" THEN first
             ELSE LET r == GetEndpointData(st, dn, nw, order[Len(order)])
                  IN  IF r.exc # "" THEN [exc |-> r.exc, list |-> <<>>]
                      ELSE [exc |-> "",
                            list |-> Append(first.list,
                                            IF wire THEN ToWire(r.data) ELSE r.data)]

ServerError(route, exc) == [route |-> route, code |-> 500, exc |-> exc]

IndexResponse(st, dn, nw, order) ==
    LET joined == JoinAll(st, dn, nw, order, FALSE)
        endpoint_data == Sort(joined.list)
    IN  IF joined.exc # "" THEN ServerError("index", joined.exc)
        ELSE [route |-> "index", code |-> 200,
              endpoints |-> [i \in 1..Len(endpoint_data) |->
                                prepare_endpoint_display_data(endpoint_data[i], nw)],
              total_endpoints |-> Len(endpoint_data),
              healthy_count |-> HealthyCount(endpoint_data),
              ssl_warning_count |-> SslWarningCount(endpoint_data),
              current_time |-> <<(nw.sec % SecondsPerDay) \div 3600,
                                 (nw.sec % 3600) \div 60, nw.sec % 60, "UTC">>]

ApiResponse(st, dn, nw, order) ==
    LET joined == JoinAll(st, dn, nw, order, TRUE)
        endpoint_data == Sort(joined.list)
    IN  IF joined.exc # "" THEN ServerError("api", joined.exc)
        ELSE [route |-> "api", code |-> 200, endpoints |-> endpoint_data,
              total |-> Len(endpoint_data)]

RouteResponse(route, st, dn, nw, order) ==
    IF route = "index" THEN IndexResponse(st, dn, nw, order)
    ELSE ApiResponse(st, dn, nw, order)

\* the orders in which a set can be iterated
Orderings(S) ==
    {o \in [1..Cardinality(S) -> S] : \A i, j \in DOMAIN o : i # j => o[i] # o[j]}

\* the store reads of a pass over the store st
Reads(st) ==
    {<<"scan", StatusPrefix>>, <<"scan", SslPrefix>>}
    \cup {<<"get", pre \o e>> : pre \in {StatusPrefix, StatusUpdatedPrefix, SslPrefix, SslUpdatedPrefix},
                     e \in GetAllEndpoints(st, {}).endpoints}

\* no read fails, or one does
Outages(st) == {{}} \cup {{k} : k \in Reads(st)}

(***************************************************************************)
(* Store contents.  The store is written by the probing process, not by    *)
(* this program: a behaviour starts from one of a bounded set of contents. *)
(***************************************************************************)
Now0 == 1700000000

MaxFacts == 4

MaxDays == 60

RECURSIVE Str(_)
Str(n) == IF n < 10 THEN <<Digits[n + 1]>> ELSE Str(n \div 10) \o <<Digits[(n % 10) + 1]>>

Days(n) == n * SecondsPerDay

\* a store holding the facts of the set F of <<key, value>> pairs
StoreOf(F) == [k \in {f[1] : f \in F} |-> (CHOOSE f \in F : f[1] = k)[2]]

RECURSIVE FactSets(_, _)
FactSets(facts, n) ==
    IF n = 0 THEN {{}}
    ELSE LET P == FactSets(facts, n - 1)
         IN  P \cup UNION {{S \cup {f} : f \in {g \in facts : \A h \in S : h[1] # g[1]}} :
                            S \in P}

\* the identifiers of the ranking specification: two HTTPS endpoints, and a
\* host named "status" with a port, reached over HTTP
SecureEndpoints == {HttpsScheme \o <<"a">>, HttpsScheme \o <<"b">>}

PlainEndpoint == HttpScheme \o StatusPrefix \o <<"8","0">>

WideFacts ==
    {<<StatusPrefix \o e, v>> : e \in SecureEndpoints, v \in {Str(200), Str(300)}}
    \cup {<<SslPrefix \o e, v>> : e \in SecureEndpoints,
                                  v \in {Str(Now0 + Days(30)), Str(Now0 + Days(30) - 1),
                                         Str(Now0 - Days(2))}}
    \cup {<<StatusPrefix \o PlainEndpoint, Str(200)>>}

WideStores == {StoreOf(F) : F \in FactSets(WideFacts, MaxFacts)}

\* the identifiers and values of the join specification: one endpoint with
\* any of its four facts
DeepEndpoints == {HttpsScheme \o <<"a">>, HttpScheme \o <<"b">>}

Overflowing == <<"9","2","2","3","3","7","2","0","3","6","8","5","4","7","7","5","8","0","8">>

YearTenThousand == <<"2","5","3","4","0","2","3","0","0","8","0","0">>

StatusValues == {Str(200), Str(0), <<"a","b","c">>, <<>>, <<" ","4","0","4"," ">>}

UpdatedValues == {Str(Now0 - 45), <<"x">>, Overflowing, YearTenThousand}

SslValues ==
    {Str(Now0 + Days(10)), Str(Now0 + Days(1)), Str(Now0 + Days(1) - 1), Str(Now0),
     Str(Now0 - 1), Str(Now0 - 3600), Str(Now0 - Days(1)), Str(Now0 - Days(1) - 1),
     <<"x">>, <<>>, Overflowing, <<"-">> \o Overflowing, YearTenThousand}

OptionOf(V) == {None} \cup {Some(v) : v \in V}

\* the fact stored under a key, if any
FactOf(key, o) == IF o = None THEN {} ELSE {<<key, o[1]>>}

DeepStores ==
    {StoreOf(FactOf(StatusPrefix \o e, a) \cup FactOf(StatusUpdatedPrefix \o e, b)
             \cup FactOf(SslPrefix \o e, c) \cup FactOf(SslUpdatedPrefix \o e, d)) :
        e \in DeepEndpoints, a \in OptionOf(StatusValues),
        b \in OptionOf(UpdatedValues), c \in OptionOf(SslValues),
        d \in OptionOf({Str(Now0 - 3661), <<"x">>, Overflowing})}

\* list(endpoints): the set in its iteration order
ListOf(S, order) == SelectSeq(order, LAMBDA e : e \in S)

NoResponse == [route |-> "none", code |-> 0]

Init ==
    /\ store \in WideStores
    /\ now = [sec |-> Now0, usec |-> 0]
    /\ down \in Outages(store)
    /\ iteration \in Orderings(GetAllEndpoints(store, {}).endpoints)
    /\ response = NoResponse

\* one pass of a route: discovery, the joins in the set's order, the
\* ranking and the response
Handle(route) ==
    LET found == GetAllEndpoints(store, down)
        endpoints == ListOf(found.endpoints, iteration)
    IN  /\ response' = IF found.exc # "" THEN ServerError(route, found.exc)
                       ELSE RouteResponse(route, store, down, now, endpoints)
        /\ UNCHANGED <<store, now, down, iteration>>

\* GET /
Index == Handle("index")

\* GET /api/endpoints
ApiEndpoints == Handle("api")

Next == Index \/ ApiEndpoints

Spec == Init /\ [][Next]_vars

(***************************************************************************)
(* get_endpoint_data on its own, over every combination of the four facts  *)
(* of one endpoint                                                         *)
(***************************************************************************)
InitJoin ==
    /\ store \in DeepStores
    /\ now \in {[sec |-> Now0, usec |-> 0], [sec |-> Now0, usec |-> 500000]}
    /\ down \in Outages(store)
    /\ iteration \in Orderings(GetAllEndpoints(store, {}).endpoints)
    /\ response = NoResponse

Join ==
    \E i \in DOMAIN iteration :
        LET r == GetEndpointData(store, down, now, iteration[i])
        IN  /\ response' = IF r.exc # "" THEN ServerError("join", r.exc)
                           ELSE [route |-> "join", code |-> 200, data |-> r.data]
            /\ UNCHANGED <<store, now, down, iteration>>

NextJoin == Join

SpecJoin == InitJoin /\ [][NextJoin]_vars

(***************************************************************************)
(* get_ssl_class on its own, over a range of days                          *)
(***************************************************************************)
InitClassify ==
    /\ store = StoreOf({})
    /\ now = [sec |-> Now0, usec |-> 0]
    /\ down = {}
    /\ iteration = <<>>
    /\ response = NoResponse

Classify ==
    \E d \in OptionOf((0 - MaxDays)..MaxDays) :
        /\ response' = [route |-> "get_ssl_class", code |-> 200, days_left |-> d,
                        ssl_class |-> get_ssl_class(d)]
        /\ UNCHANGED <<store, now, down, iteration>>

NextClassify == Classify

SpecClassify == InitClassify /\ [][NextClassify]_vars

(***************************************************************************)
(* Properties                                                              *)
(***************************************************************************)
\* a pass of a route that produced its record list
Served == response.route \in {"index", "api"} /\ response.code = 200

\* get_endpoint_data returned a record
Joined == response.route = "join" /\ response.code = 200

\* the fact stored under a key, as an optional string
Fact(key) == IF key \in DOMAIN store THEN Some(store[key]) ELSE None

\* the identifiers of a namespace: each key with only its prefix removed
Stripped(prefix) ==
    {SubSeq(k, Len(prefix) + 1, Len(k)) : k \in ScanIter(store, prefix)}

Emitted == {response.endpoints[i].endpoint : i \in DOMAIN response.endpoints}

\* C1: the discovered endpoints are exactly the union of the identifiers of
\* the status: and ssl: namespaces, each the key with only its namespace
\* prefix stripped, unchanged even when it contains "status:" or "ssl:".
C1_DiscoveryIsUnionOfStrippedKeys ==
    Served => Emitted = Stripped(StatusPrefix) \cup Stripped(SslPrefix)

\* a string that is no integer literal
Malformed(o) == o # None /\ ~ParseInt(o[1]).ok

\* C2: whatever strings are stored under the four keys of an endpoint,
\* get_endpoint_data returns a record without raising when the store reads
\* succeed, and a field fed by a malformed value is left unset.
C2_JoinNeverRaises ==
    (response.route = "join" /\ down = {}) =>
        /\ response.code = 200
        /\ Malformed(Fact(StatusUpdatedPrefix \o response.data.endpoint))
              => response.data.last_status_update = None
        /\ Malformed(Fact(SslPrefix \o response.data.endpoint))
              => response.data.ssl_expiration = None /\ response.data.days_left = None
        /\ Malformed(Fact(SslUpdatedPrefix \o response.data.endpoint))
              => response.data.last_ssl_update = None

\* C3 as stated: status_code is 0 exactly when no status fact was found or
\* the fact found does not parse as an integer, and a found non-numeric fact
\* keeps its raw string in the status field.
C3_StatusCodeZeroIffNoNumber ==
    Joined =>
        LET f == Fact(StatusPrefix \o response.data.endpoint)
        IN  /\ (response.data.status_code = 0) <=> (f = None \/ ~ParseInt(f[1]).ok)
            /\ Malformed(f) => response.data.status = f

\* C3 amended: status_code is 0 exactly when no status fact was found, the
\* fact is the empty string, it does not parse as an integer, or it parses
\* to the integer zero; a found non-empty fact, numeric or not, keeps its raw
\* string in the status field, and otherwise the status field is unset.
C3_StatusCodeZeroIffNoNonzeroNumber ==
    Joined =>
        LET f == Fact(StatusPrefix \o response.data.endpoint)
            usable == f # None /\ f[1] # <<>>
        IN  /\ (response.data.status_code = 0)
                  <=> (~usable \/ ~ParseInt(f[1]).ok \/ IntValue(ParseInt(f[1])) = 0)
            /\ response.data.status = IF usable THEN f ELSE None

C3_Witness ==
    /\ Joined
    /\ Fact(StatusPrefix \o response.data.endpoint) = Some(<<"0">>)
    /\ response.data.status_code = 0
    /\ response.data.status = Some(<<"0">>)

\* C4: in every record get_endpoint_data returns, days_left is set exactly
\* when ssl_expiration is set and is_https is true; and for an identifier
\* that does not start with https://, ssl_expiration, days_left and
\* last_ssl_update are all unset whatever the ssl keys hold.
C4_DaysLeftIffExpirationAndHttps ==
    Joined =>
        /\ (response.data.days_left # None)
              <=> (response.data.ssl_expiration # None /\ response.data.is_https)
        /\ ~StartsWith(response.data.endpoint, HttpsScheme)
              => /\ response.data.ssl_expiration = None
                 /\ response.data.days_left = None
                 /\ response.data.last_ssl_update = None

C4_Witness ==
    /\ Joined
    /\ ~StartsWith(response.data.endpoint, HttpsScheme)
    /\ Fact(SslPrefix \o response.data.endpoint) = Some(Str(Now0 + Days(10)))
    /\ Fact(SslUpdatedPrefix \o response.data.endpoint) = Some(Str(Now0 - 3661))
    /\ response.data.days_left = None

\* the record of an HTTPS endpoint whose expiration fact parsed
Expiring == Joined /\ response.data.ssl_expiration # None

\* whole seconds from now to the expiration; the exact difference is this
\* minus the fraction of a second of now
SecondsLeft == response.data.ssl_expiration[1] - now.sec

\* C5 as stated: days_left is the difference in seconds between the
\* expiration and now, divided by 86400 and truncated toward zero.
C5_DaysLeftTruncated ==
    Expiring =>
        response.data.days_left[1] =
            IF now.usec > 0 THEN TruncDiv(SecondsLeft - 1, TRUE, SecondsPerDay)
            ELSE TruncDiv(SecondsLeft, FALSE, SecondsPerDay)

\* C5 amended: days_left is the floor of the difference in seconds between
\* the expiration and now divided by 86400, i.e. the integer d with
\* d * 86400 <= expiration - now < (d + 1) * 86400; an expiration less than
\* one day in the past gives -1, one between one and two days in the past -2.
C5_DaysLeftFloored ==
    Expiring =>
        LET d == response.data.days_left[1]
        IN  /\ \/ d * SecondsPerDay < SecondsLeft
               \/ d * SecondsPerDay = SecondsLeft /\ now.usec = 0
            /\ \/ SecondsLeft < (d + 1) * SecondsPerDay
               \/ SecondsLeft = (d + 1) * SecondsPerDay /\ now.usec > 0

C5_Witness ==
    /\ Expiring
    /\ SecondsLeft = 0 - 3600
    /\ response.data.days_left = Some(0 - 1)

\* the position of an endpoint in the list that was joined
Position(e) == CHOOSE i \in DOMAIN iteration : iteration[i] = e

\* C6: in the list both routes emit, a record with days_left unset comes
\* after every record with days_left set, the set ones ascend, and records
\* that tie keep the relative order of the input list.
C6_RankedStable ==
    Served =>
        \A i, j \in DOMAIN response.endpoints :
            i < j =>
                LET x == response.endpoints[i]
                    y == response.endpoints[j]
                IN  /\ x.days_left = None => y.days_left = None
                    /\ (x.days_left # None /\ y.days_left # None)
                          => x.days_left[1] <= y.days_left[1]
                    /\ x.days_left = y.days_left
                          => Position(x.endpoint) < Position(y.endpoint)

C6_Witness ==
    /\ Served
    /\ Len(iteration) = 3
    /\ Len(response.endpoints) = 3
    /\ response.endpoints[1].days_left # None
    /\ response.endpoints[2].days_left = None
    /\ response.endpoints[3].days_left = None
    /\ iteration[3] = response.endpoints[1].endpoint

\* C7: get_ssl_class maps unset to the none class, days < 0 to expired,
\* 0 <= days < 7 to critical, 7 <= days < 30 to warning, days >= 30 to ok.
C7_SslClassBuckets ==
    response.route = "get_ssl_class" =>
        LET d == response.days_left
            c == response.ssl_class
        IN  /\ c \in {"", "ssl-expired", "ssl-critical", "ssl-warning", "ssl-ok"}
            /\ (c = "") <=> (d = None)
            /\ d # None =>
                  /\ (c = "ssl-expired") <=> (d[1] < 0)
                  /\ (c = "ssl-critical") <=> (0 <= d[1] /\ d[1] < 7)
                  /\ (c = "ssl-warning") <=> (7 <= d[1] /\ d[1] < 30)
                  /\ (c = "ssl-ok") <=> (d[1] >= 30)

C7_Witness ==
    /\ response.route = "get_ssl_class"
    /\ response.days_left = Some(7)
    /\ response.ssl_class = "ssl-warning"

\* C8: in a dashboard pass total_endpoints is the number of records,
\* healthy_count the number with 200 <= status_code < 300, ssl_warning_count
\* the number whose days_left is set and < 30, negative values included.
C8_SummaryCounts ==
    (Served /\ response.route = "index") =>
        LET recs == response.endpoints
        IN  /\ response.total_endpoints = Len(recs)
            /\ response.healthy_count =
                  Cardinality({i \in DOMAIN recs :
                      200 <= recs[i].status_code /\ recs[i].status_code < 300})
            /\ response.ssl_warning_count =
                  Cardinality({i \in DOMAIN recs :
                      recs[i].days_left # None /\ recs[i].days_left[1] < 30})

C8_Witness ==
    /\ Served /\ response.route = "index"
    /\ response.total_endpoints = 2
    /\ response.healthy_count = 1
    /\ response.ssl_warning_count = 1
    /\ \E i \in DOMAIN response.endpoints :
          /\ response.endpoints[i].days_left = Some(0 - 2)
          /\ response.endpoints[i].status_code = 200
    /\ \E i \in DOMAIN response.endpoints :
          /\ response.endpoints[i].days_left = None
          /\ response.endpoints[i].status_code = 300

\* the store reads a pass performs: both scans, the status and
\* status_updated keys of every discovered endpoint, and the ssl and
\* ssl_updated keys of the HTTPS ones
Performed(op) ==
    \/ op[1] = "scan"
    \/ \E i \in DOMAIN iteration :
          LET e == iteration[i]
          IN  \/ op[2] \in {StatusPrefix \o e, StatusUpdatedPrefix \o e}
              \/ StartsWith(e, HttpsScheme)
                    /\ op[2] \in {SslPrefix \o e, SslUpdatedPrefix \o e}

\* C9: when the scan or a get of a pass cannot reach the store, the pass
\* ends as a failed request that carries no record list and no count, which
\* differs from the empty result of a reachable store holding no facts.
C9_StoreFailureFailsThePass ==
    response.route \in {"index", "api"} =>
        /\ (\E op \in down : Performed(op)) =>
              /\ response.code = 500
              /\ response.exc = "ConnectionError"
              /\ DOMAIN response = {"route", "code", "exc"}
        /\ (DOMAIN store = {} /\ down = {} /\ response.route = "api") =>
              response = [route |-> "api", code |-> 200, endpoints |-> <<>>, total |-> 0]

C9_Witness ==
    /\ response.route = "api"
    /\ response.code = 500
    /\ Len(iteration) = 3
    /\ down = {<<"get", StatusUpdatedPrefix \o iteration[2]>>}

\* C10 as stated: for a fixed store content and instant, any two orders of
\* the per-endpoint joins yield the same output sequence, ties included.
C10_OutputIndependentOfJoinOrder ==
    Served =>
        \A o \in Orderings({iteration[i] : i \in DOMAIN iteration}) :
            RouteResponse(response.route, store, down, now, o) = response

DaysLeftOf(recs) == [i \in DOMAIN recs |-> recs[i].days_left]

RecordsOf(recs) == {recs[i] : i \in DOMAIN recs}

\* C10 amended: for a fixed store content and instant, any two orders of the
\* per-endpoint joins yield the same set of records and the same sequence
\* of days_left values; only records that tie on days_left (equal, or both
\* unset) can change places, and they appear in the order they were joined.
C10_RankingIndependentOfJoinOrder ==
    Served =>
        \A o \in Orderings({iteration[i] : i \in DOMAIN iteration}) :
            LET other == RouteResponse(response.route, store, down, now, o)
            IN  /\ other.code = 200
                /\ DaysLeftOf(other.endpoints) = DaysLeftOf(response.endpoints)
                /\ RecordsOf(other.endpoints) = RecordsOf(response.endpoints)
                /\ \A i, j \in DOMAIN other.endpoints :
                      (i < j /\ other.endpoints[i].days_left = other.endpoints[j].days_left)
                          => \E a, b \in DOMAIN o :
                                /\ a < b
                                /\ o[a] = other.endpoints[i].endpoint
                                /\ o[b] = other.endpoints[j].endpoint

C10_Witness ==
    /\ Served
    /\ Len(response.endpoints) = 3
    /\ response.endpoints[1].days_left # None
    /\ response.endpoints[1].days_left = response.endpoints[2].days_left
    /\ response.endpoints[3].days_left = None

=============================================================================
